---- MODULE Spec2Model ----
(***************************************************************************)
(* A model of mctl's repository manager (internal/repository), of the     *)
(* registry file it persists (internal/config), of the `sync` command     *)
(* (cmd/sync.go), of the snapshot manager (internal/snapshot) and of      *)
(* RemoveEmptyParentDirectories (pkg/git).                                 *)
(*                                                                         *)
(* Specifications: SpecSync (runSync) and SpecSyncFair (runSync under the *)
(* scheduling of its goroutines), SpecStatus (UpdateStatus called once    *)
(* and once more), SpecRegistry (calls on the repository manager),        *)
(* SpecSave (SaveConfig step by step), SpecApply (ApplySnapshot),         *)
(* SpecRestore (ApplySnapshot on a registry that changed), SpecGenerateID *)
(* and SpecSnapshotID (the two id functions, each on two inputs),         *)
(* SpecSnapshot (CreateSnapshot, SaveSnapshot, LoadSnapshot),             *)
(* SpecRemoveParents and SpecRemoveParentsFair                            *)
(* (RemoveEmptyParentDirectories step by step).                           *)
(*                                                                         *)
(* Strings that the code inspects character by character (names, urls,    *)
(* paths, branches, ids, git's numeric output) are sequences of           *)
(* one-character strings; strings that are only compared (statuses,      *)
(* error kinds, program positions) are TLA+ strings.                      *)
(*                                                                         *)
(* Environment assumptions: file-system writes of metadata records, of    *)
(* snapshot files and of the registry file succeed (except in SpecSave,   *)
(* where every step of the save may fail); the answers git gives for one  *)
(* working tree do not change during one command except through that      *)
(* command's own clone, pull, checkout and reset; paths are canonical (no *)
(* symbolic links).                                                        *)
(***************************************************************************)
EXTENDS Integers, Sequences, FiniteSets, TLC

VARIABLES
    configFile,    \* the persisted registry (.mirror/mirror.toml): Seq(RepositoryConfig)
    metadataDir,   \* the metadata records on disk: function id -> Metadata
    cfg,           \* cfg.Repositories of the running command (in memory)
    initial,       \* the persisted registry when runSync loaded it (history)
    flags,         \* runSync's parameters parallel, force, dryRun, fetchOnly, autoRemove
    repositories,  \* runSync's []*Repository
    results,       \* runSync's []syncResult
    pc,            \* position of runSync's invoking goroutine
    idx,           \* index of the loop the invoking goroutine is in
    semaphore,     \* number of tokens in the semaphore channel
    wg,            \* the WaitGroup counter
    task,          \* position of every repository task
    cond,          \* what every task found in its working tree
    ops,           \* the git subcommands every task invoked, in order
    reposToRemove, \* runSync's reposToRemove
    removed,       \* RemoveRepository calls made by runSync: <<id, error>> (history)
    ret,           \* runSync's return value
    st,            \* one UpdateStatus call: its input and its outcome
    regOp,         \* the last call on the repository manager: its input and its outcome
    apply,         \* one ApplySnapshot call: its input, its position and its outcome
    snapshotsDir,  \* the snapshot files on disk: function id -> file contents
    clock,         \* the wall clock, in ticks
    call,          \* the last call of the snapshot manager or of a package function
    fs             \* the directories pkg/git works on: those that exist, those holding a file

vars == <<configFile, metadataDir, cfg, initial, flags, repositories, results, pc, idx,
          semaphore, wg, task, cond, ops, reposToRemove, removed, ret, st, regOp, apply,
          snapshotsDir, clock, call, fs>>

syncVars == <<configFile, metadataDir, cfg, initial, flags, repositories, results, pc, idx,
              semaphore, wg, task, cond, ops, reposToRemove, removed, ret>>

\* the variables the commands above leave alone
otherVars == <<snapshotsDir, clock, call, fs>>

----------------------------------------------------------------------------
(* Bounds *)

\* most AddRepository calls that built the registry runSync starts from
MaxRepos == 2

\* largest --parallel value tried (the smallest is 0)
MaxParallel == 2

\* largest ahead / behind count a single UpdateStatus call is tried on
MaxCount == 2

----------------------------------------------------------------------------
(* Strings *)

Nil == "nil"

Range(s) == {s[k] : k \in DOMAIN s}

\* strings.ToLower over the letters that occur in the model
LowerOf(c) ==
    CASE c = "S" -> "s"
      [] c = "V" -> "v"
      [] c = "C" -> "c"
      [] OTHER -> c

ToLower(s) == [k \in 1..Len(s) |-> LowerOf(s[k])]

RECURSIVE TrimLeft(_)
TrimLeft(s) == IF s # <<>> /\ Head(s) = " " THEN TrimLeft(Tail(s)) ELSE s

RECURSIVE TrimRight(_)
TrimRight(s) ==
    IF s # <<>> /\ s[Len(s)] = " " THEN TrimRight(SubSeq(s, 1, Len(s) - 1)) ELSE s

\* strings.TrimSpace
TrimSpace(s) == TrimRight(TrimLeft(s))

DigitChars == <<"0", "1", "2", "3", "4", "5", "6", "7", "8", "9">>

\* fmt's %d of a non-negative integer
RECURSIVE Itoa(_)
Itoa(n) == IF n < 10 THEN <<DigitChars[n + 1]>> ELSE Itoa(n \div 10) \o <<DigitChars[(n % 10) + 1]>>

DigitValue(c) == CHOOSE d \in 0..9 : DigitChars[d + 1] = c

IsDigit(c) == \E d \in 0..9 : DigitChars[d + 1] = c

\* fmt.Sscanf(s, "%d", &n) into n = 0: the leading digits of s, n left 0 without one
RECURSIVE ScanDigits(_, _)
ScanDigits(s, acc) ==
    IF s # <<>> /\ IsDigit(Head(s)) THEN ScanDigits(Tail(s), 10 * acc + DigitValue(Head(s)))
    ELSE acc

Sscanf(s) == ScanDigits(s, 0)

----------------------------------------------------------------------------
(* Repository identity *)

StatusClean == "CLEAN"
StatusModified == "MODIFIED"
StatusAhead == "AHEAD"
StatusBehind == "BEHIND"
StatusDiverged == "DIVERGED"
StatusUnknown == "UNKNOWN"

Statuses == {StatusClean, StatusModified, StatusAhead, StatusBehind, StatusDiverged,
             StatusUnknown}

\* the zero time.Time, and the time.Now() of the running command
ZeroTime == 0
Now == 1

\* sha256 and the 10-character hex prefix are taken to be collision free: the id is
\* represented by the digested input itself
HexDigest(input) == input

\* GenerateID without the normalisation of its inputs
GenerateIDRaw(name, url, branch, path) ==
    HexDigest(name \o <<"|">> \o url \o <<"|">> \o branch \o <<"|">> \o path)

GenerateID(name, url, branch, path) ==
    HexDigest(ToLower(TrimSpace(name)) \o <<"|">> \o TrimSpace(url) \o <<"|">>
              \o TrimSpace(branch) \o <<"|">> \o TrimSpace(path))

RepositoryConfig(id, name, path, url, branch) ==
    [ID |-> id, Name |-> name, Path |-> path, URL |-> url, Branch |-> branch]

\* repository.New
New(repoCfg) ==
    [Config |-> repoCfg,
     Metadata |-> [ID |-> repoCfg.ID, Name |-> repoCfg.Name, LastSync |-> ZeroTime,
                   Current |-> StatusUnknown, Branch |-> repoCfg.Branch]]

----------------------------------------------------------------------------
(* The working tree of one repository, as git and the file system report it *)

HeadBranch == <<"m">>

HeadCommit == <<"c", "0">>

DefaultCond ==
    [exists |-> TRUE,    \* os.Stat finds the working directory
     cloneOK |-> TRUE,   \* git clone succeeds
     branchOK |-> TRUE,  \* git rev-parse --abbrev-ref HEAD succeeds
     statusOK |-> TRUE,  \* git status --porcelain succeeds
     dirty |-> FALSE,    \* git status --porcelain prints something
     fetchOK |-> TRUE,   \* git fetch succeeds
     aheadOK |-> TRUE,   \* git rev-list --count remote/branch..branch succeeds
     behindOK |-> TRUE,  \* git rev-list --count branch..remote/branch succeeds
     ahead |-> 0,        \* commits ahead of the remote
     behind |-> 0,       \* commits behind the remote
     pullOK |-> TRUE,    \* git pull origin <branch> succeeds
     checkoutOK |-> TRUE, \* git checkout <branch> succeeds
     resetOK |-> TRUE,   \* git reset --hard <commit> succeeds
     head |-> HeadBranch, \* the branch checked out
     commit |-> HeadCommit] \* the commit HEAD is at

\* A context threads one *Repository, its working tree, the git subcommands invoked
\* so far and the metadata directory through the methods of Repository.
Ctx(r, e, md) == [r |-> r, e |-> e, ops |-> <<>>, md |-> md]

Invoke(x, op) == [x EXCEPT !.ops = Append(@, op)]

Ret(x, err) == [x |-> x, err |-> err]

SetStatus(x, s) == [x EXCEPT !.r.Metadata.Current = s]

\* Repository.SaveMetadata: the record is written under the repository's id
SaveMetadata(x) ==
    Ret([x EXCEPT !.md = [k \in DOMAIN x.md \cup {x.r.Config.ID} |->
                             IF k = x.r.Config.ID THEN x.r.Metadata ELSE x.md[k]]],
        Nil)

\* Repository.LoadMetadata
LoadMetadata(r, md) ==
    IF r.Config.ID \in DOMAIN md
    THEN [r |-> [r EXCEPT !.Metadata = md[r.Config.ID]], err |-> Nil]
    ELSE [r |-> r, err |-> "error reading metadata file"]

\* Repository.GetCurrentBranch
GetCurrentBranch(x) ==
    LET y == Invoke(x, "rev-parse") IN
    IF y.e.branchOK THEN [x |-> y, val |-> y.e.head, err |-> Nil]
    ELSE [x |-> y, val |-> <<>>, err |-> "error getting current branch"]

\* Repository.HasLocalChanges
HasLocalChanges(x) ==
    LET y == Invoke(x, "status") IN
    IF y.e.statusOK THEN [x |-> y, val |-> y.e.dirty, err |-> Nil]
    ELSE [x |-> y, val |-> FALSE, err |-> "error checking for local changes"]

\* Repository.Fetch
Fetch(x) ==
    LET y == Invoke(x, "fetch") IN
    IF y.e.fetchOK THEN Ret(y, Nil) ELSE Ret(y, "error fetching from remote")

\* Repository.GetRemoteStatus
GetRemoteStatus(x) ==
    LET b == GetCurrentBranch(x) IN
    IF b.err # Nil THEN [x |-> b.x, ahead |-> 0, behind |-> 0, err |-> b.err]
    ELSE
        LET y == Invoke(b.x, "rev-list") IN
        IF ~y.e.aheadOK
        THEN [x |-> y, ahead |-> 0, behind |-> 0, err |-> "error checking ahead status"]
        ELSE
            LET z == Invoke(y, "rev-list") IN
            IF ~z.e.behindOK
            THEN [x |-> z, ahead |-> 0, behind |-> 0, err |-> "error checking behind status"]
            ELSE [x |-> z, ahead |-> Sscanf(Itoa(z.e.ahead)),
                  behind |-> Sscanf(Itoa(z.e.behind)), err |-> Nil]

\* RemoteStatus with the two counts taken in the wrong order
RemoteStatusSwapped(ahead, behind) ==
    IF ahead > 0 /\ behind > 0 THEN StatusDiverged
    ELSE IF behind > 0 THEN StatusAhead
    ELSE IF ahead > 0 THEN StatusBehind
    ELSE StatusClean

\* the status UpdateStatus derives from the two counts
RemoteStatus(ahead, behind) ==
    IF ahead > 0 /\ behind > 0 THEN StatusDiverged
    ELSE IF ahead > 0 THEN StatusAhead
    ELSE IF behind > 0 THEN StatusBehind
    ELSE StatusClean

\* Repository.UpdateStatus
UpdateStatus(x) ==
    IF ~x.e.exists THEN Ret(SetStatus(x, StatusUnknown), Nil)
    ELSE
        LET b == GetCurrentBranch(x) IN
        IF b.err # Nil THEN Ret(b.x, b.err)
        ELSE
            LET h == HasLocalChanges([b.x EXCEPT !.r.Metadata.Branch = b.val]) IN
            IF h.err # Nil THEN Ret(h.x, h.err)
            ELSE IF h.val THEN SaveMetadata(SetStatus(h.x, StatusModified))
            ELSE
                LET f == Fetch(h.x) IN
                IF f.err # Nil THEN Ret(SetStatus(f.x, StatusClean), Nil)
                ELSE
                    LET g == GetRemoteStatus(f.x) IN
                    IF g.err # Nil THEN Ret(g.x, g.err)
                    ELSE SaveMetadata(SetStatus(g.x, RemoteStatus(g.ahead, g.behind)))

\* Repository.Clone
Clone(x) ==
    LET y == Invoke(x, "clone") IN
    IF ~y.e.cloneOK THEN Ret(y, "git clone failed")
    ELSE SaveMetadata(SetStatus([y EXCEPT !.e.exists = TRUE, !.e.dirty = FALSE],
                                StatusClean))

\* Repository.Sync
Sync(x) ==
    LET f == Fetch(x) IN
    IF f.err # Nil THEN f
    ELSE
        LET h == HasLocalChanges(f.x) IN
        IF h.err # Nil THEN Ret(h.x, h.err)
        ELSE IF h.val THEN Ret(h.x, "repository has uncommitted changes")
        ELSE
            LET b == GetCurrentBranch(h.x) IN
            IF b.err # Nil THEN Ret(b.x, b.err)
            ELSE
                LET y == Invoke(b.x, "pull") IN
                IF ~y.e.pullOK THEN Ret(y, "error pulling from remote")
                ELSE UpdateStatus([y EXCEPT !.e.behind = 0, !.r.Metadata.LastSync = Now])

\* Repository.CheckoutBranch
CheckoutBranch(x, name) ==
    LET y == Invoke(x, "checkout") IN
    IF ~y.e.checkoutOK THEN Ret(y, "error checking out branch")
    ELSE UpdateStatus([y EXCEPT !.e.head = name])

\* Repository.ResetToCommit: git reset --hard moves HEAD to the commit and discards the
\* changes of tracked files (untracked files are not modelled)
ResetToCommit(x, commitHash) ==
    LET y == Invoke(x, "reset") IN
    IF ~y.e.resetOK THEN Ret(y, "error resetting to commit")
    ELSE Ret([y EXCEPT !.e.commit = commitHash, !.e.dirty = FALSE], Nil)

----------------------------------------------------------------------------
(* The repository manager: m.Config.Repositories, the registry file and the *)
(* metadata directory                                                        *)

Manager(repos, file, md) == [cfg |-> repos, file |-> file, md |-> md]

BaseDir == <<"/", "w">>

\* filepath.Join(m.BaseDir, path), for path elements without separators or dots
JoinBaseDir(path) == IF path = <<>> THEN BaseDir ELSE BaseDir \o <<"/">> \o path

\* the first of the indices in S (a range loop returns at its first match), 0 for none
FirstIndex(S) == IF S = {} THEN 0 ELSE CHOOSE k \in S : \A j \in S : k <= j

\* os.Create: the file is created or truncated
Create(file) == <<>>

\* encoder.Encode: the repository list is written to the open file
Encode(file, repos) == file \o repos

\* config.SaveConfig: the file is rewritten with the configuration in memory
SaveConfig(m) == [m EXCEPT !.file = Encode(Create(@), m.cfg)]

\* the three lookups of Manager.GetRepository, in the order they are tried
ByID(identifier, c) == c.ID = identifier
ByName(identifier, c) == c.Name = identifier
ByPath(identifier, c) == c.Path = identifier \/ JoinBaseDir(c.Path) = identifier

\* the index of the entry Manager.GetRepository resolves identifier to, 0 for none
Resolve(repos, identifier) ==
    LET byID == FirstIndex({k \in DOMAIN repos : ByID(identifier, repos[k])})
        byName == FirstIndex({k \in DOMAIN repos : ByName(identifier, repos[k])})
        byPath == FirstIndex({k \in DOMAIN repos : ByPath(identifier, repos[k])})
    IN  IF byID # 0 THEN byID
        ELSE IF byName # 0 THEN byName
        ELSE byPath

\* Manager.GetRepository
GetRepository(m, identifier) ==
    LET k == Resolve(m.cfg, identifier) IN
    IF k = 0 THEN [repo |-> New(RepositoryConfig(<<>>, <<>>, <<>>, <<>>, <<>>)),
                   err |-> "repository not found"]
    ELSE LET l == LoadMetadata(New(m.cfg[k]), m.md) IN [repo |-> l.r, err |-> l.err]

\* Manager.GetAllRepositories: metadata that cannot be loaded is initialised and saved
RECURSIVE GetAllFrom(_, _, _)
GetAllFrom(m, k, repos) ==
    IF k > Len(m.cfg) THEN [m |-> m, repos |-> repos, err |-> Nil]
    ELSE
        LET l == LoadMetadata(New(m.cfg[k]), m.md) IN
        IF l.err = Nil THEN GetAllFrom(m, k + 1, Append(repos, l.r))
        ELSE
            LET sv == SaveMetadata(Ctx(l.r, DefaultCond, m.md)) IN
            GetAllFrom([m EXCEPT !.md = sv.x.md], k + 1, Append(repos, l.r))

GetAllRepositories(m) == GetAllFrom(m, 1, <<>>)

\* PathTaken with the check left out
PathTakenNever(repos, path) == FALSE

\* "Check if path is already used"
PathTaken(repos, path) == \E k \in DOMAIN repos : repos[k].Path = path

NameExists(repos, name) == \E k \in DOMAIN repos : repos[k].Name = name

\* UniqueName with the requested name taken as it is
UniqueNameAsRequested(repos, name, uniqueName, nameCounter) == name

\* UniqueName with the number of entries as the suffix of a taken name
UniqueNameByCount(repos, name, uniqueName, nameCounter) ==
    IF ~NameExists(repos, name) THEN name ELSE name \o <<"-">> \o Itoa(Len(repos))

\* the loop of AddRepository that looks for a free name
RECURSIVE UniqueName(_, _, _, _)
UniqueName(repos, name, uniqueName, nameCounter) ==
    IF ~NameExists(repos, uniqueName) THEN uniqueName
    ELSE UniqueName(repos, name, name \o <<"-">> \o Itoa(nameCounter), nameCounter + 1)

\* Manager.AddRepository; e is the working tree git clone would meet
AddRepository(m, name, url, path, branch, noClone, e) ==
    IF PathTaken(m.cfg, path)
    THEN [m |-> m, err |-> "repository already exists at path"]
    ELSE
        LET uniqueName == UniqueName(m.cfg, name, name, 1)
            id == GenerateID(uniqueName, url, branch, path)
            repoCfg == RepositoryConfig(id, uniqueName, path, url, branch)
            x == Ctx(New(repoCfg), e, m.md)
            c == IF noClone THEN Ret(x, Nil) ELSE Clone(x)
        IN  IF c.err # Nil THEN [m |-> m, err |-> c.err]
            ELSE
                LET sv == SaveMetadata(c.x) IN
                [m |-> SaveConfig([m EXCEPT !.md = sv.x.md, !.cfg = Append(@, repoCfg)]),
                 err |-> Nil]

\* append(repos[:k], repos[k+1:]...)
RemoveAt(repos, k) == SubSeq(repos, 1, k - 1) \o SubSeq(repos, k + 1, Len(repos))

\* os.Remove of a metadata record; a missing record is not an error
RemoveMetadata(md, id) == [k \in DOMAIN md \ {id} |-> md[k]]

\* Manager.RemoveRepository with delete = false
RemoveRepository(m, identifier) ==
    LET g == GetRepository(m, identifier) IN
    IF g.err # Nil THEN [m |-> m, err |-> g.err]
    ELSE
        LET k == FirstIndex({j \in DOMAIN m.cfg : m.cfg[j].ID = g.repo.Config.ID})
            m1 == IF k = 0 THEN m ELSE [m EXCEPT !.cfg = RemoveAt(@, k)]
            m2 == SaveConfig(m1)
        IN  [m |-> [m2 EXCEPT !.md = RemoveMetadata(@, g.repo.Config.ID)], err |-> Nil]

----------------------------------------------------------------------------
(* Working trees tried *)

\* The working trees with ahead in aheads, behind in behinds and pullOK in pulls. A
\* field no command reads in a tree (the counts of a dirty tree, say) keeps its
\* default value, so that every tree stands for all that differ in unread fields.
Conds(aheads, behinds, pulls) ==
    { [DefaultCond EXCEPT !.exists = FALSE, !.cloneOK = c] : c \in BOOLEAN }
    \cup { [DefaultCond EXCEPT !.branchOK = FALSE],
           [DefaultCond EXCEPT !.statusOK = FALSE],
           [DefaultCond EXCEPT !.fetchOK = FALSE],
           [DefaultCond EXCEPT !.aheadOK = FALSE],
           [DefaultCond EXCEPT !.behindOK = FALSE] }
    \cup { [DefaultCond EXCEPT !.dirty = TRUE, !.fetchOK = f] : f \in BOOLEAN }
    \cup { [DefaultCond EXCEPT !.ahead = a, !.behind = b, !.pullOK = p] :
             a \in aheads, b \in behinds, p \in pulls }

\* the working trees a task of runSync may meet. runSync reads the counts only through
\* the status UpdateStatus stores, so one value of ahead is tried here; the counts
\* are varied on UpdateStatus itself, in StatusConds.
SyncConds == Conds({0}, {0, 1}, BOOLEAN)

\* the working trees a single UpdateStatus call is tried on
StatusConds == Conds(0..MaxCount, 0..MaxCount, {TRUE})

----------------------------------------------------------------------------
(* Registries runSync starts from: built by AddRepository (--no-clone) *)

svc == <<"s", "v", "c">>
Svc == <<"S", "v", "c">>

AddInputs ==
    << [name |-> svc, url |-> <<"u">>, path |-> <<"p">>, branch |-> <<>>],
       [name |-> Svc, url |-> <<"u">>, path |-> <<" ", "p">>, branch |-> <<>>],
       [name |-> svc, url |-> <<"u">>, path |-> <<"q">>, branch |-> <<>>] >>

NoMetadata == [k \in {} |-> {}]

\* an empty snapshots directory
NoSnapshots == [k \in {} |-> {}]

\* a file system with no directory but the root
NoFiles == [dirs |-> {}, files |-> {}]

EmptyManager == Manager(<<>>, <<>>, NoMetadata)

\* AddRepository applied to the inputs picked by S, in the order of AddInputs
RECURSIVE AddAll(_, _, _)
AddAll(m, k, S) ==
    IF k > Len(AddInputs) THEN m
    ELSE IF k \notin S THEN AddAll(m, k + 1, S)
    ELSE LET a == AddInputs[k] IN
         AddAll(AddRepository(m, a.name, a.url, a.path, a.branch, TRUE, DefaultCond).m,
                k + 1, S)

InitialManagers ==
    { AddAll(EmptyManager, 1, S) :
        S \in { T \in SUBSET (1..Len(AddInputs)) : Cardinality(T) <= MaxRepos } }

----------------------------------------------------------------------------
(* cmd/sync.go: runSync *)

SyncResult(name, success, error, notExist, repository) ==
    [Name |-> name, Success |-> success, Error |-> error, NotExist |-> notExist,
     Repository |-> repository]

\* the zero syncResult; Repository is the index of the task's *Repository, 0 for nil
ZeroResult == SyncResult(<<>>, FALSE, Nil, FALSE, 0)

Succeeded(r) == SyncResult(r.Config.Name, TRUE, Nil, FALSE, 0)

Failed(r, error) == SyncResult(r.Config.Name, FALSE, error, FALSE, 0)

\* Capacity without the guard on parallel <= 0: an unbuffered channel
CapacityAsGiven(parallel) == parallel

\* "Limit parallel operations": the capacity of the semaphore channel
Capacity(parallel) == IF parallel <= 0 THEN 1 ELSE parallel

\* RejectsLocalChanges with the check left out
RejectsNoLocalChanges(f, r) == FALSE

\* "Check for local changes"
RejectsLocalChanges(f, r) == ~f.force /\ r.Metadata.Current = StatusModified

\* the body of the goroutine started for repository t: the result it writes and the
\* context it leaves
SyncTask(t, r, e, md, f) ==
    LET x == Ctx(r, e, md) IN
    IF ~e.exists
    THEN IF f.dryRun THEN [result |-> Succeeded(r), x |-> x]
         ELSE LET c == Clone(x) IN
              IF c.err # Nil
              THEN [result |-> SyncResult(r.Config.Name, FALSE,
                                          "failed to clone repository", TRUE, t),
                    x |-> c.x]
              ELSE [result |-> Succeeded(r), x |-> c.x]
    ELSE
        LET u == UpdateStatus(x) IN
        IF u.err # Nil THEN [result |-> Failed(r, "failed to update status"), x |-> u.x]
        ELSE IF RejectsLocalChanges(f, u.x.r)
        THEN [result |-> Failed(r, "repository has uncommitted changes"), x |-> u.x]
        ELSE IF f.dryRun THEN [result |-> Succeeded(r), x |-> u.x]
        ELSE IF f.fetchOnly
        THEN LET ft == Fetch(u.x) IN
             IF ft.err # Nil THEN [result |-> Failed(r, "failed to fetch"), x |-> ft.x]
             ELSE [result |-> Succeeded(r), x |-> ft.x]
        ELSE LET sy == Sync(u.x) IN
             IF sy.err # Nil THEN [result |-> Failed(r, "failed to sync"), x |-> sy.x]
             ELSE [result |-> Succeeded(r), x |-> sy.x]

\* SyncFailed without the tolerance auto-remove gives
SyncFailedOnAnyFailure(successCount, total, autoRemove) == successCount < total

\* "Return error if any repository failed to sync and wasn't auto-removed"
SyncFailed(successCount, total, autoRemove) ==
    successCount < total /\ (~autoRemove \/ successCount = 0)

SuccessCount(res) == Cardinality({k \in DOMAIN res : res[k].Success})

\* the *Repository of every result flagged NotExist, in the order of results
RECURSIVE NotExistFrom(_, _)
NotExistFrom(res, k) ==
    IF k > Len(res) THEN <<>>
    ELSE IF res[k].NotExist THEN <<res[k].Repository>> \o NotExistFrom(res, k + 1)
    ELSE NotExistFrom(res, k + 1)

Tasks == DOMAIN repositories

NoCall == [phase |-> "none"]

\* runSync up to the loop: the configuration is loaded, every repository is fetched
\* from the manager (--repos is empty), the semaphore and the results are made
RunSyncStart ==
    /\ pc = "idle"
    /\ \E parallel \in 0..MaxParallel, force, dryRun, fetchOnly, autoRemove \in BOOLEAN :
         flags' = [parallel |-> parallel, force |-> force, dryRun |-> dryRun,
                   fetchOnly |-> fetchOnly, autoRemove |-> autoRemove]
    /\ LET g == GetAllRepositories(Manager(configFile, configFile, metadataDir))
           n == Len(g.repos)
       IN  /\ cfg' = configFile
           /\ initial' = configFile
           /\ metadataDir' = g.m.md
           /\ repositories' = g.repos
           /\ results' = [k \in 1..n |-> ZeroResult]
           /\ task' = [k \in 1..n |-> "pending"]
           /\ cond' = [k \in 1..n |-> DefaultCond]
           /\ ops' = [k \in 1..n |-> <<>>]
    /\ semaphore' = 0
    /\ wg' = 0
    /\ idx' = 1
    /\ pc' = "loop"
    /\ UNCHANGED <<configFile, reposToRemove, removed, ret, st, regOp, apply, otherVars>>

\* CanAcquire with a channel that holds one token more than its capacity
CanAcquireOneMore == semaphore <= Capacity(flags.parallel)

\* whether the send on the semaphore channel can proceed
CanAcquire == semaphore < Capacity(flags.parallel)

\* one iteration of the loop: wg.Add(1), the send on the semaphore, the go statement
Spawn ==
    /\ pc = "loop"
    /\ idx <= Len(repositories)
    /\ CanAcquire
    /\ wg' = wg + 1
    /\ semaphore' = semaphore + 1
    /\ task' = [task EXCEPT ![idx] = "running"]
    /\ idx' = idx + 1
    /\ UNCHANGED <<configFile, metadataDir, cfg, initial, flags, repositories, results, pc,
                   cond, ops, reposToRemove, removed, ret, st, regOp, apply, otherVars>>

\* Slot with every goroutine writing the first slot
SlotOfFirst(t) == 1

\* the slot of results the goroutine of repository t writes
Slot(t) == t

\* the goroutine of repository t runs to its return: its body, then the two deferred
\* calls (the receive from the semaphore, wg.Done). The body is one step: it shares
\* with the other goroutines only results, of which it writes its own slot, and the
\* metadata directory, of which it writes the record of its own id.
TaskRun(t) ==
    /\ task[t] = "running"
    /\ \E e \in SyncConds :
         LET o == SyncTask(t, repositories[t], e, metadataDir, flags) IN
         /\ results' = [results EXCEPT ![Slot(t)] = o.result]
         /\ repositories' = [repositories EXCEPT ![t] = o.x.r]
         /\ metadataDir' = o.x.md
         /\ cond' = [cond EXCEPT ![t] = e]
         /\ ops' = [ops EXCEPT ![t] = o.x.ops]
    /\ semaphore' = semaphore - 1
    /\ wg' = wg - 1
    /\ task' = [task EXCEPT ![t] = "done"]
    /\ UNCHANGED <<configFile, cfg, initial, flags, pc, idx, reposToRemove, removed, ret,
                   st, regOp, apply, otherVars>>

\* WaitReturns without the wait
WaitReturnsAtOnce == TRUE

\* whether wg.Wait() returns
WaitReturns == wg = 0

\* the loop is over, wg.Wait() returns, and reposToRemove is collected
Join ==
    /\ pc = "loop"
    /\ idx > Len(repositories)
    /\ WaitReturns
    /\ reposToRemove' = IF flags.autoRemove THEN NotExistFrom(results, 1) ELSE <<>>
    /\ idx' = 1
    /\ pc' = "remove"
    /\ UNCHANGED <<configFile, metadataDir, cfg, initial, flags, repositories, results,
                   semaphore, wg, task, cond, ops, removed, ret, st, regOp, apply, otherVars>>

\* one iteration of "Remove repositories from configuration"
RemoveStep ==
    /\ pc = "remove"
    /\ idx <= Len(reposToRemove)
    /\ idx' = idx + 1
    /\ IF flags.dryRun
       THEN UNCHANGED <<configFile, metadataDir, cfg, removed>>
       ELSE LET id == repositories[reposToRemove[idx]].Config.ID
                rm == RemoveRepository(Manager(cfg, configFile, metadataDir), id)
            IN  /\ cfg' = rm.m.cfg
                /\ configFile' = rm.m.file
                /\ metadataDir' = rm.m.md
                /\ removed' = Append(removed, <<reposToRemove[idx], rm.err>>)
    /\ UNCHANGED <<initial, flags, repositories, results, pc, semaphore, wg, task, cond,
                   ops, reposToRemove, ret, st, regOp, apply, otherVars>>

\* "Report results" and the return
Report ==
    /\ pc = "remove"
    /\ idx > Len(reposToRemove)
    /\ ret' = IF SyncFailed(SuccessCount(results), Len(repositories), flags.autoRemove)
              THEN "error" ELSE Nil
    /\ pc' = "done"
    /\ UNCHANGED <<configFile, metadataDir, cfg, initial, flags, repositories, results,
                   idx, semaphore, wg, task, cond, ops, reposToRemove, removed, st, regOp, apply, otherVars>>

InitSync ==
    /\ \E m \in InitialManagers :
         /\ configFile = m.file
         /\ metadataDir \in {m.md, NoMetadata}
    /\ cfg = <<>>
    /\ initial = <<>>
    /\ flags = [parallel |-> 0, force |-> FALSE, dryRun |-> FALSE, fetchOnly |-> FALSE,
                autoRemove |-> FALSE]
    /\ repositories = <<>>
    /\ results = <<>>
    /\ pc = "idle"
    /\ idx = 1
    /\ semaphore = 0
    /\ wg = 0
    /\ task = <<>>
    /\ cond = <<>>
    /\ ops = <<>>
    /\ reposToRemove = <<>>
    /\ removed = <<>>
    /\ ret = "none"
    /\ st = NoCall
    /\ regOp = NoCall
    /\ apply = NoCall
    /\ snapshotsDir = NoSnapshots
    /\ clock = 0
    /\ call = NoCall
    /\ fs = NoFiles

NextSync ==
    \/ RunSyncStart
    \/ Spawn
    \/ \E t \in Tasks : TaskRun(t)
    \/ Join
    \/ RemoveStep
    \/ Report

SpecSync == InitSync /\ [][NextSync]_vars

\* the goroutine of runSync, from the call to the return
MainGoroutine == RunSyncStart \/ Spawn \/ Join \/ RemoveStep \/ Report

\* The Go scheduler runs every goroutine that stays runnable, and the git
\* subprocesses a goroutine waits for terminate.
SpecSyncFair ==
    /\ SpecSync
    /\ WF_vars(MainGoroutine)
    /\ \A t \in 1..MaxRepos : WF_vars(t \in Tasks /\ TaskRun(t))

----------------------------------------------------------------------------
(* A single call of Repository.UpdateStatus *)

\* the repository of the first registry input as GetRepository hands it out when its
\* metadata record holds status s
Loaded(s) ==
    LET a == AddInputs[1]
        r == New(RepositoryConfig(GenerateID(a.name, a.url, a.branch, a.path),
                                  a.name, a.path, a.url, a.branch))
    IN  [r EXCEPT !.Metadata.Current = s]

\* the metadata directory that holds the record of r and no other
StoreOf(r) == [k \in {r.Config.ID} |-> r.Metadata]

InitStatus ==
    /\ configFile = <<>>
    /\ metadataDir = NoMetadata
    /\ cfg = <<>>
    /\ initial = <<>>
    /\ flags = [parallel |-> 0, force |-> FALSE, dryRun |-> FALSE, fetchOnly |-> FALSE,
                autoRemove |-> FALSE]
    /\ repositories = <<>>
    /\ results = <<>>
    /\ pc = "idle"
    /\ idx = 1
    /\ semaphore = 0
    /\ wg = 0
    /\ task = <<>>
    /\ cond = <<>>
    /\ ops = <<>>
    /\ reposToRemove = <<>>
    /\ removed = <<>>
    /\ ret = "none"
    /\ regOp = NoCall
    /\ apply = NoCall
    /\ snapshotsDir = NoSnapshots
    /\ clock = 0
    /\ call = NoCall
    /\ fs = NoFiles
    /\ \E s \in Statuses, e \in StatusConds, stored \in BOOLEAN :
         LET loaded == Loaded(s)
             md == IF stored THEN StoreOf(loaded) ELSE NoMetadata
         IN  st = [phase |-> "call", before |-> loaded, r |-> loaded, e |-> e,
                   err |-> Nil, ops |-> <<>>, md |-> md, mdBefore |-> md,
                   first |-> [r |-> loaded, md |-> md, err |-> Nil]]

\* r.UpdateStatus() on the repository and working tree of st
CallUpdateStatus ==
    /\ st.phase = "call"
    /\ LET u == UpdateStatus(Ctx(st.r, st.e, st.md)) IN
       st' = [st EXCEPT !.phase = "returned", !.r = u.x.r, !.err = u.err,
                        !.ops = u.x.ops, !.md = u.x.md]
    /\ UNCHANGED <<syncVars, regOp, apply, otherVars>>

\* r.UpdateStatus() once more on the same *Repository, the working tree unchanged;
\* what the first call left is kept in st.first
CallUpdateStatusAgain ==
    /\ st.phase = "returned"
    /\ LET u == UpdateStatus(Ctx(st.r, st.e, st.md)) IN
       st' = [st EXCEPT !.phase = "again", !.r = u.x.r, !.err = u.err,
                        !.ops = u.x.ops, !.md = u.x.md,
                        !.first = [r |-> st.r, md |-> st.md, err |-> st.err]]
    /\ UNCHANGED <<syncVars, regOp, apply, otherVars>>

NextStatus ==
    \/ CallUpdateStatus
    \/ CallUpdateStatusAgain

SpecStatus == InitStatus /\ [][NextStatus]_vars

----------------------------------------------------------------------------
(* Calls on the repository manager, one after the other: AddRepository,      *)
(* RemoveRepository, GetRepository and GetAllRepositories                    *)

\* most entries a registry is grown to (the paths tried allow no more than three)
MaxRegistry == 3

\* the names and the paths AddRepository is called with; "svc" is a name and a path
RegNames == {svc, Svc}

RegPaths == {<<"p">>, <<" ", "p">>, svc}

RegURL == <<"u">>

RegBranch == <<>>

\* the identifiers tried: every id, name and path of the registry, relative and
\* joined to the base directory, and one that matches nothing
Identifiers(repos) ==
    {repos[k].ID : k \in DOMAIN repos} \cup {repos[k].Name : k \in DOMAIN repos}
    \cup {repos[k].Path : k \in DOMAIN repos}
    \cup {JoinBaseDir(repos[k].Path) : k \in DOMAIN repos}
    \cup {<<"x">>}

TheManager == Manager(cfg, configFile, metadataDir)

RegCall(phase, name, path, noClone, cloneOK, identifier, before, err, repo, repos) ==
    [phase |-> phase, name |-> name, path |-> path, noClone |-> noClone,
     cloneOK |-> cloneOK, identifier |-> identifier, before |-> before, err |-> err,
     repo |-> repo, repos |-> repos]

NoRepository == New(RepositoryConfig(<<>>, <<>>, <<>>, <<>>, <<>>))

\* m.AddRepository(name, url, path, branch, false), git clone succeeding or not (the
\* registries the other specifications start from are built with noClone set)
RegAdd ==
    /\ Len(cfg) < MaxRegistry
    /\ \E name \in RegNames, path \in RegPaths, cloneOK \in BOOLEAN :
         LET e == [DefaultCond EXCEPT !.exists = FALSE, !.cloneOK = cloneOK]
             a == AddRepository(TheManager, name, RegURL, path, RegBranch, FALSE, e)
         IN  /\ cfg' = a.m.cfg
             /\ configFile' = a.m.file
             /\ metadataDir' = a.m.md
             /\ regOp' = RegCall("add", name, path, FALSE, cloneOK, <<>>, TheManager,
                                 a.err, NoRepository, <<>>)
    /\ UNCHANGED <<initial, flags, repositories, results, pc, idx, semaphore, wg, task,
                   cond, ops, reposToRemove, removed, ret, st, apply, otherVars>>

\* m.RemoveRepository(identifier, false)
RegRemove ==
    /\ \E identifier \in Identifiers(cfg) :
         LET rm == RemoveRepository(TheManager, identifier) IN
         /\ cfg' = rm.m.cfg
         /\ configFile' = rm.m.file
         /\ metadataDir' = rm.m.md
         /\ regOp' = RegCall("remove", <<>>, <<>>, TRUE, TRUE, identifier, TheManager,
                             rm.err, NoRepository, <<>>)
    /\ UNCHANGED <<initial, flags, repositories, results, pc, idx, semaphore, wg, task,
                   cond, ops, reposToRemove, removed, ret, st, apply, otherVars>>

\* m.GetRepository(identifier)
RegGet ==
    /\ \E identifier \in Identifiers(cfg) :
         LET g == GetRepository(TheManager, identifier) IN
         regOp' = RegCall("get", <<>>, <<>>, TRUE, TRUE, identifier, TheManager, g.err,
                          g.repo, <<>>)
    /\ UNCHANGED <<configFile, metadataDir, cfg, initial, flags, repositories, results,
                   pc, idx, semaphore, wg, task, cond, ops, reposToRemove, removed, ret,
                   st, apply, otherVars>>

\* m.GetAllRepositories()
RegGetAll ==
    /\ LET g == GetAllRepositories(TheManager) IN
       /\ metadataDir' = g.m.md
       /\ regOp' = RegCall("getall", <<>>, <<>>, TRUE, TRUE, <<>>, TheManager, g.err,
                           NoRepository, g.repos)
    /\ UNCHANGED <<configFile, cfg, initial, flags, repositories, results, pc, idx,
                   semaphore, wg, task, cond, ops, reposToRemove, removed, ret, st, apply, otherVars>>

\* the metadata directory is lost (deleted, or made unreadable) between two calls
RegLoseMetadata ==
    /\ metadataDir # NoMetadata
    /\ metadataDir' = NoMetadata
    /\ regOp' = NoCall
    /\ UNCHANGED <<configFile, cfg, initial, flags, repositories, results, pc, idx,
                   semaphore, wg, task, cond, ops, reposToRemove, removed, ret, st, apply, otherVars>>

\* the registry of a freshly initialised workspace
InitRegistry ==
    /\ cfg = <<>>
    /\ configFile = <<>>
    /\ metadataDir = NoMetadata
    /\ initial = <<>>
    /\ flags = [parallel |-> 0, force |-> FALSE, dryRun |-> FALSE, fetchOnly |-> FALSE,
                autoRemove |-> FALSE]
    /\ repositories = <<>>
    /\ results = <<>>
    /\ pc = "idle"
    /\ idx = 1
    /\ semaphore = 0
    /\ wg = 0
    /\ task = <<>>
    /\ cond = <<>>
    /\ ops = <<>>
    /\ reposToRemove = <<>>
    /\ removed = <<>>
    /\ ret = "none"
    /\ st = NoCall
    /\ regOp = NoCall
    /\ apply = NoCall
    /\ snapshotsDir = NoSnapshots
    /\ clock = 0
    /\ call = NoCall
    /\ fs = NoFiles

NextRegistry ==
    \/ RegAdd
    \/ RegRemove
    \/ RegGet
    \/ RegGetAll
    \/ RegLoseMetadata

SpecRegistry == InitRegistry /\ [][NextRegistry]_vars

----------------------------------------------------------------------------
(* config.SaveConfig step by step, as AddRepository and RemoveRepository    *)
(* call it: cfg is the list in memory, configFile the registry file          *)

\* the managers at the call of SaveConfig: AddRepository has appended its entry,
\* RemoveRepository has deleted its entry, the registry file is the one loaded
AddSaving(m) ==
    { [old |-> m.file, cfg |-> a.m.cfg, md |-> a.m.md] :
        a \in { AddRepository(m, name, RegURL, path, RegBranch, TRUE, DefaultCond) :
                  name \in RegNames, path \in RegPaths } }

RemoveSaving(m) ==
    { [old |-> m.file, cfg |-> r.m.cfg, md |-> m.md] :
        r \in { RemoveRepository(m, identifier) : identifier \in Identifiers(m.cfg) } }

SavingManagers ==
    UNION { AddSaving(m) : m \in { n \in InitialManagers : Len(n.cfg) < MaxRegistry } }
    \cup UNION { RemoveSaving(m) : m \in InitialManagers }

SaveCall(step, old, new, err) ==
    [phase |-> "save", step |-> step, old |-> old, new |-> new, err |-> err]

\* the lists an interrupted encoder.Encode may have written: the proper prefixes
Prefixes(repos) == {SubSeq(repos, 1, n) : n \in 0..(Len(repos) - 1)}

InitSave ==
    /\ \E m \in SavingManagers :
         /\ m.cfg # m.old
         /\ cfg = m.cfg
         /\ configFile = m.old
         /\ metadataDir = m.md
         /\ regOp = SaveCall("MkdirAll", m.old, m.cfg, Nil)
    /\ initial = <<>>
    /\ flags = [parallel |-> 0, force |-> FALSE, dryRun |-> FALSE, fetchOnly |-> FALSE,
                autoRemove |-> FALSE]
    /\ repositories = <<>>
    /\ results = <<>>
    /\ pc = "idle"
    /\ idx = 1
    /\ semaphore = 0
    /\ wg = 0
    /\ task = <<>>
    /\ cond = <<>>
    /\ ops = <<>>
    /\ reposToRemove = <<>>
    /\ removed = <<>>
    /\ ret = "none"
    /\ st = NoCall
    /\ apply = NoCall
    /\ snapshotsDir = NoSnapshots
    /\ clock = 0
    /\ call = NoCall
    /\ fs = NoFiles

SaveFrame ==
    UNCHANGED <<metadataDir, cfg, initial, flags, repositories, results, pc, idx,
                semaphore, wg, task, cond, ops, reposToRemove, removed, ret, st, apply, otherVars>>

\* os.MkdirAll(configDir, 0700)
SaveMkdirAll ==
    /\ regOp.phase = "save" /\ regOp.step = "MkdirAll"
    /\ \E ok \in BOOLEAN :
         regOp' = IF ok THEN [regOp EXCEPT !.step = "Create"]
                  ELSE [regOp EXCEPT !.step = "returned",
                                     !.err = "error creating configuration directory"]
    /\ UNCHANGED configFile
    /\ SaveFrame

\* os.Create(configPath)
SaveCreate ==
    /\ regOp.phase = "save" /\ regOp.step = "Create"
    /\ \E ok \in BOOLEAN :
         IF ok
         THEN /\ configFile' = Create(configFile)
              /\ regOp' = [regOp EXCEPT !.step = "Chmod"]
         ELSE /\ UNCHANGED configFile
              /\ regOp' = [regOp EXCEPT !.step = "returned",
                                        !.err = "error creating configuration file"]
    /\ SaveFrame

\* os.Chmod(configPath, 0600)
SaveChmod ==
    /\ regOp.phase = "save" /\ regOp.step = "Chmod"
    /\ \E ok \in BOOLEAN :
         regOp' = IF ok THEN [regOp EXCEPT !.step = "Encode"]
                  ELSE [regOp EXCEPT !.step = "returned",
                                     !.err = "error setting configuration file permissions"]
    /\ UNCHANGED configFile
    /\ SaveFrame

\* encoder.Encode(config), then the deferred file.Close()
SaveEncode ==
    /\ regOp.phase = "save" /\ regOp.step = "Encode"
    /\ \/ /\ configFile' = Encode(configFile, cfg)
          /\ regOp' = [regOp EXCEPT !.step = "returned"]
       \/ \E written \in Prefixes(cfg) :
            /\ configFile' = Encode(configFile, written)
            /\ regOp' = [regOp EXCEPT !.step = "returned",
                                      !.err = "error encoding configuration"]
    /\ SaveFrame

NextSave ==
    \/ SaveMkdirAll
    \/ SaveCreate
    \/ SaveChmod
    \/ SaveEncode

SpecSave == InitSave /\ [][NextSave]_vars

----------------------------------------------------------------------------
(* internal/snapshot: ApplySnapshot *)

RepositoryState(id, name, path, branch, commitHash, status) ==
    [ID |-> id, Name |-> name, Path |-> path, Branch |-> branch,
     CommitHash |-> commitHash, Status |-> status]

\* the branch and the commit the snapshot recorded
SnapBranch == <<"b">>

SnapCommit == <<"c", "1">>

\* snapshot.Repositories of a snapshot taken of the registry repos, in registry order
SnapshotOf(repos) ==
    [k \in DOMAIN repos |->
        RepositoryState(repos[k].ID, repos[k].Name, repos[k].Path, SnapBranch, SnapCommit,
                        StatusClean)]

\* ApplyOptions; Repositories is the set of names given (the keys of repoMap)
ApplyOptions(dryRun, force, names) ==
    [DryRun |-> dryRun, Force |-> force, Repositories |-> names]

\* "Filter repositories by name"
RECURSIVE FilterByName(_, _)
FilterByName(states, names) ==
    IF states = <<>> THEN <<>>
    ELSE (IF Head(states).Name \in names THEN <<Head(states)>> ELSE <<>>)
         \o FilterByName(Tail(states), names)

\* "Get repositories to apply"
RepoStatesToApply(snapshot, options) ==
    IF options.Repositories # {} THEN FilterByName(snapshot, options.Repositories)
    ELSE snapshot

\* Preflights with the check left out
PreflightsNever(options) == FALSE

\* "Check for uncommitted changes if not force"
Preflights(options) == ~options.Force

\* DryRun with the option ignored
DryRunIgnored(options) == FALSE

\* "Print what would be done in dry run mode"
DryRun(options) == options.DryRun

\* Aborts with the pass going on to the next repository after a failure
AbortsNever(err) == FALSE

\* whether the pass returns at the error of a step
Aborts(err) == err # Nil

\* the working trees ApplySnapshot may meet: a missing directory, on which every git
\* command fails; failing queries of the status refresh; clean and dirty trees on
\* which checkout and reset succeed or fail
ApplyConds ==
    { [DefaultCond EXCEPT !.exists = FALSE, !.branchOK = FALSE, !.statusOK = FALSE,
                          !.fetchOK = FALSE, !.checkoutOK = FALSE, !.resetOK = FALSE],
      [DefaultCond EXCEPT !.statusOK = FALSE],
      [DefaultCond EXCEPT !.aheadOK = FALSE],
      [DefaultCond EXCEPT !.fetchOK = FALSE] }
    \cup { [DefaultCond EXCEPT !.dirty = d, !.checkoutOK = c, !.resetOK = r] :
             d, c, r \in BOOLEAN }

\* a working tree ApplySnapshot has not looked at yet
Unseen == [seen |-> FALSE]

TreesFor(k) == IF apply.trees[k] = Unseen THEN ApplyConds ELSE {apply.trees[k]}

ApplyFrame ==
    UNCHANGED <<configFile, cfg, initial, flags, repositories, results, pc, idx,
                semaphore, wg, task, cond, ops, reposToRemove, removed, ret, st, regOp,
                otherVars>>

\* ApplySnapshot up to the first loop: the repository states to apply are selected
ApplyStart ==
    /\ apply.phase = "call"
    /\ LET targets == RepoStatesToApply(apply.snapshot, apply.options)
           n == Len(targets)
       IN  apply' = [apply EXCEPT
                        !.phase = IF Preflights(apply.options) THEN "preflight" ELSE "apply",
                        !.targets = targets,
                        !.k = 1,
                        !.trees = [j \in 1..n |-> Unseen],
                        !.met = [j \in 1..n |-> Unseen],
                        !.ops = [j \in 1..n |-> <<>>],
                        !.state = [j \in 1..n |-> "pending"]]
    /\ UNCHANGED metadataDir
    /\ ApplyFrame

\* one iteration of "Check for uncommitted changes if not force"
PreflightStep ==
    /\ apply.phase = "preflight"
    /\ apply.k <= Len(apply.targets)
    /\ LET k == apply.k
           g == GetRepository(TheManager, apply.targets[k].Name)
       IN  IF g.err # Nil
           THEN apply' = [apply EXCEPT !.phase = "returned",
                                       !.err = "error getting repository"]
           ELSE \E e \in TreesFor(k) :
                  LET h == HasLocalChanges(Ctx(g.repo, e, metadataDir))
                      err == IF h.err # Nil THEN "error checking for changes"
                             ELSE IF h.val THEN "repository has uncommitted changes"
                             ELSE Nil
                  IN  apply' = [apply EXCEPT
                                   !.trees[k] = h.x.e,
                                   !.met[k] = e,
                                   !.ops[k] = @ \o h.x.ops,
                                   !.err = err,
                                   !.phase = IF err # Nil THEN "returned" ELSE @,
                                   !.k = IF err # Nil THEN @ ELSE @ + 1]
    /\ UNCHANGED metadataDir
    /\ ApplyFrame

\* the first loop is over
PreflightDone ==
    /\ apply.phase = "preflight"
    /\ apply.k > Len(apply.targets)
    /\ apply' = [apply EXCEPT !.phase = "apply", !.k = 1]
    /\ UNCHANGED metadataDir
    /\ ApplyFrame

\* one iteration of "Apply snapshot"
ApplyStep ==
    /\ apply.phase = "apply"
    /\ apply.k <= Len(apply.targets)
    /\ LET k == apply.k
           s == apply.targets[k]
           g == GetRepository(TheManager, s.Name)
       IN  IF g.err # Nil
           THEN /\ apply' = [apply EXCEPT !.phase = "returned",
                                          !.err = "error getting repository"]
                /\ UNCHANGED metadataDir
           ELSE IF DryRun(apply.options)
           THEN /\ apply' = [apply EXCEPT !.k = @ + 1, !.state[k] = "skipped"]
                /\ UNCHANGED metadataDir
           ELSE \E e \in TreesFor(k) :
                  LET c == CheckoutBranch(Ctx(g.repo, e, metadataDir), s.Branch)
                      r == IF c.err # Nil THEN c ELSE ResetToCommit(c.x, s.CommitHash)
                      u == IF r.err # Nil THEN r ELSE UpdateStatus(r.x)
                      err == IF c.err # Nil THEN "error checking out branch"
                             ELSE IF r.err # Nil THEN "error resetting to commit"
                             ELSE IF u.err # Nil THEN "error updating repository status"
                             ELSE Nil
                  IN  /\ metadataDir' = u.x.md
                      /\ apply' = [apply EXCEPT
                                      !.trees[k] = u.x.e,
                                      !.met[k] = e,
                                      !.ops[k] = @ \o u.x.ops,
                                      !.state[k] = IF err # Nil THEN "failed" ELSE "applied",
                                      !.err = IF Aborts(err) THEN err ELSE @,
                                      !.phase = IF Aborts(err) THEN "returned" ELSE @,
                                      !.k = IF Aborts(err) THEN @ ELSE @ + 1]
    /\ ApplyFrame

\* the second loop is over: return nil
ApplyReturn ==
    /\ apply.phase = "apply"
    /\ apply.k > Len(apply.targets)
    /\ apply' = [apply EXCEPT !.phase = "returned"]
    /\ UNCHANGED metadataDir
    /\ ApplyFrame

Names(states) == {states[k].Name : k \in DOMAIN states}

InitApply ==
    /\ \E m \in InitialManagers :
         /\ cfg = m.cfg
         /\ configFile = m.file
         /\ metadataDir \in {m.md, NoMetadata}
         /\ \E dryRun, force \in BOOLEAN, names \in SUBSET Names(SnapshotOf(m.cfg)) :
              apply = [phase |-> "call", snapshot |-> SnapshotOf(m.cfg),
                       options |-> ApplyOptions(dryRun, force, names),
                       targets |-> <<>>, k |-> 1, err |-> Nil, trees |-> <<>>,
                       met |-> <<>>, ops |-> <<>>, state |-> <<>>,
                       before |-> Manager(m.cfg, m.file, metadataDir)]
    /\ initial = <<>>
    /\ flags = [parallel |-> 0, force |-> FALSE, dryRun |-> FALSE, fetchOnly |-> FALSE,
                autoRemove |-> FALSE]
    /\ repositories = <<>>
    /\ results = <<>>
    /\ pc = "idle"
    /\ idx = 1
    /\ semaphore = 0
    /\ wg = 0
    /\ task = <<>>
    /\ cond = <<>>
    /\ ops = <<>>
    /\ reposToRemove = <<>>
    /\ removed = <<>>
    /\ ret = "none"
    /\ st = NoCall
    /\ regOp = NoCall
    /\ snapshotsDir = NoSnapshots
    /\ clock = 0
    /\ call = NoCall
    /\ fs = NoFiles

NextApply ==
    \/ ApplyStart
    \/ PreflightStep
    \/ PreflightDone
    \/ ApplyStep
    \/ ApplyReturn

SpecApply == InitApply /\ [][NextApply]_vars

----------------------------------------------------------------------------
(* ApplySnapshot on a registry that changed after the snapshot was taken *)

\* the URL of a repository registered later
OtherURL == <<"v">>

\* the manager after `mctl remove` of the entry the identifier resolves to and
\* `mctl add` of another repository under the name and the path that became free
Reregister(m, identifier) ==
    LET old == m.cfg[Resolve(m.cfg, identifier)]
        rm == RemoveRepository(m, identifier)
    IN  AddRepository(rm.m, old.Name, OtherURL, old.Path, old.Branch, TRUE, DefaultCond).m

\* the managers ApplySnapshot may find for a snapshot taken of m: m itself, and m
\* with one entry removed and registered anew
LaterManagers(m) == {m} \cup { Reregister(m, n) : n \in Names(SnapshotOf(m.cfg)) }

InitRestore ==
    /\ \E m \in InitialManagers :
         \E l \in LaterManagers(m) :
           /\ cfg = l.cfg
           /\ configFile = l.file
           /\ metadataDir = l.md
           /\ \E dryRun, force \in BOOLEAN :
                apply = [phase |-> "call", snapshot |-> SnapshotOf(m.cfg),
                         options |-> ApplyOptions(dryRun, force, {}),
                         targets |-> <<>>, k |-> 1, err |-> Nil, trees |-> <<>>,
                         met |-> <<>>, ops |-> <<>>, state |-> <<>>,
                         before |-> Manager(l.cfg, l.file, l.md)]
    /\ initial = <<>>
    /\ flags = [parallel |-> 0, force |-> FALSE, dryRun |-> FALSE, fetchOnly |-> FALSE,
                autoRemove |-> FALSE]
    /\ repositories = <<>>
    /\ results = <<>>
    /\ pc = "idle"
    /\ idx = 1
    /\ semaphore = 0
    /\ wg = 0
    /\ task = <<>>
    /\ cond = <<>>
    /\ ops = <<>>
    /\ reposToRemove = <<>>
    /\ removed = <<>>
    /\ ret = "none"
    /\ st = NoCall
    /\ regOp = NoCall
    /\ snapshotsDir = NoSnapshots
    /\ clock = 0
    /\ call = NoCall
    /\ fs = NoFiles

SpecRestore == InitRestore /\ [][NextApply]_vars

----------------------------------------------------------------------------
(* repository.GenerateID called on two inputs *)

IDNames == {svc, Svc, <<" ">> \o svc, <<"s", "v">>}

IDURLs == {<<"u">>, <<" ", "u", " ">>}

IDBranches == {<<>>, <<"m">>, <<"m", " ">>}

IDPaths == {<<"p">>, <<" ", "p">>, <<"S">>}

IDInputs == [name : IDNames, url : IDURLs, branch : IDBranches, path : IDPaths]

InitGenerateID ==
    /\ \E a, b \in IDInputs : call = [phase |-> "call", a |-> a, b |-> b]
    /\ configFile = <<>>
    /\ metadataDir = NoMetadata
    /\ cfg = <<>>
    /\ initial = <<>>
    /\ flags = [parallel |-> 0, force |-> FALSE, dryRun |-> FALSE, fetchOnly |-> FALSE,
                autoRemove |-> FALSE]
    /\ repositories = <<>>
    /\ results = <<>>
    /\ pc = "idle"
    /\ idx = 1
    /\ semaphore = 0
    /\ wg = 0
    /\ task = <<>>
    /\ cond = <<>>
    /\ ops = <<>>
    /\ reposToRemove = <<>>
    /\ removed = <<>>
    /\ ret = "none"
    /\ st = NoCall
    /\ regOp = NoCall
    /\ apply = NoCall
    /\ snapshotsDir = NoSnapshots
    /\ clock = 0
    /\ fs = NoFiles

\* GenerateID is called on the first input and on the second
CallGenerateID ==
    /\ call.phase = "call"
    /\ LET a == call.a
           b == call.b
       IN  call' = [phase |-> "generated", a |-> a, b |-> b,
                    ida |-> GenerateID(a.name, a.url, a.branch, a.path),
                    idb |-> GenerateID(b.name, b.url, b.branch, b.path)]
    /\ UNCHANGED <<syncVars, st, regOp, apply, snapshotsDir, clock, fs>>

NextGenerateID == CallGenerateID

SpecGenerateID == InitGenerateID /\ [][NextGenerateID]_vars

----------------------------------------------------------------------------
(* internal/snapshot: generateSnapshotID called on two fleet states *)

\* the clock ticks twice a second
TicksPerSecond == 2

\* timestamp.Format("20060102-150405"): the time down to the second
Format(timestamp) == Itoa(timestamp \div TicksPerSecond)

\* the bytes written to the hash: id, branch and commit hash of every repository
\* state, one after the other
RECURSIVE StateBytes(_)
StateBytes(repoStates) ==
    IF repoStates = <<>> THEN <<>>
    ELSE Head(repoStates).ID \o Head(repoStates).Branch \o Head(repoStates).CommitHash
         \o StateBytes(Tail(repoStates))

\* generateSnapshotID; the 8-character prefix of the sha256 is taken to be collision
\* free, as the digest of GenerateID is
generateSnapshotID(timestamp, repoStates) ==
    Format(timestamp) \o <<"-">> \o HexDigest(StateBytes(repoStates))

\* repository ids: hex strings of one width (10 digits in the code, 1 here)
FleetIDs == {<<"1">>, <<"2">>}

\* commit hashes: hex strings of one width (40 digits in the code, 1 here)
FleetCommits == {<<"a">>, <<"b">>}

\* branch names: any string git accepts, hex digits included
FleetBranches ==
    {<<"m">>} \cup { <<"m">> \o c \o i \o <<"m">> : c \in FleetCommits, i \in FleetIDs }

FleetState(id, branch, commitHash) ==
    RepositoryState(id, <<"n">> \o id, <<"p">> \o id, branch, commitHash, StatusClean)

FleetStates ==
    { FleetState(i, b, c) : i \in FleetIDs, b \in FleetBranches, c \in FleetCommits }

\* the repository states of a registry of at most two repositories of different ids
Fleets ==
    {<<>>} \cup { <<s>> : s \in FleetStates }
    \cup { <<s, t>> : s \in FleetStates, t \in {u \in FleetStates : u.ID = <<"2">>} }

InitSnapshotID ==
    /\ \E a, b \in { f \in Fleets : Len(f) = 0 \/ f[1].ID = <<"1">> }, tb \in {1, 2} :
         call = [phase |-> "call", a |-> a, b |-> b, ta |-> 0, tb |-> tb]
    /\ configFile = <<>>
    /\ metadataDir = NoMetadata
    /\ cfg = <<>>
    /\ initial = <<>>
    /\ flags = [parallel |-> 0, force |-> FALSE, dryRun |-> FALSE, fetchOnly |-> FALSE,
                autoRemove |-> FALSE]
    /\ repositories = <<>>
    /\ results = <<>>
    /\ pc = "idle"
    /\ idx = 1
    /\ semaphore = 0
    /\ wg = 0
    /\ task = <<>>
    /\ cond = <<>>
    /\ ops = <<>>
    /\ reposToRemove = <<>>
    /\ removed = <<>>
    /\ ret = "none"
    /\ st = NoCall
    /\ regOp = NoCall
    /\ apply = NoCall
    /\ snapshotsDir = NoSnapshots
    /\ clock = 0
    /\ fs = NoFiles

\* generateSnapshotID is called on the first fleet state and on the second
CallGenerateSnapshotID ==
    /\ call.phase = "call"
    /\ call' = [call EXCEPT !.phase = "generated"] @@
               [ida |-> generateSnapshotID(call.ta, call.a),
                idb |-> generateSnapshotID(call.tb, call.b)]
    /\ UNCHANGED <<syncVars, st, regOp, apply, snapshotsDir, clock, fs>>

NextSnapshotID == CallGenerateSnapshotID

SpecSnapshotID == InitSnapshotID /\ [][NextSnapshotID]_vars

----------------------------------------------------------------------------
(* internal/snapshot: CreateSnapshot, SaveSnapshot, LoadSnapshot *)

\* most ticks of the clock in one behaviour
MaxClock == 2

\* Characters of a string that encoding/json does not write as they are: the double
\* quote and the backslash are escaped, a byte that is not valid UTF-8 is written as
\* the escape of the replacement rune.
Quote == "\""
Backslash == "\\"
InvalidByte == "0xFF"
ReplacementRune == "U+FFFD"

\* json.Marshal of one string, without the enclosing quotes
RECURSIVE MarshalString(_)
MarshalString(s) ==
    IF s = <<>> THEN <<>>
    ELSE (IF Head(s) = Quote THEN <<Backslash, Quote>>
          ELSE IF Head(s) = Backslash THEN <<Backslash, Backslash>>
          ELSE IF Head(s) = InvalidByte THEN <<Backslash, "u", "f", "f", "f", "d">>
          ELSE <<Head(s)>>)
         \o MarshalString(Tail(s))

\* json.Unmarshal of one string
RECURSIVE UnmarshalString(_)
UnmarshalString(d) ==
    IF d = <<>> THEN <<>>
    ELSE IF Head(d) = Backslash /\ Len(d) >= 6 /\ d[2] = "u"
    THEN (IF SubSeq(d, 3, 6) = <<"f", "f", "f", "d">> THEN <<ReplacementRune>>
          ELSE <<"U+" \o d[3] \o d[4] \o d[5] \o d[6]>>)
         \o UnmarshalString(SubSeq(d, 7, Len(d)))
    ELSE IF Head(d) = Backslash /\ Len(d) >= 2
    THEN <<d[2]>> \o UnmarshalString(SubSeq(d, 3, Len(d)))
    ELSE <<Head(d)>> \o UnmarshalString(Tail(d))

\* the Snapshot struct
Snapshot(id, createdAt, description, repoStates) ==
    [ID |-> id, CreatedAt |-> createdAt, Description |-> description,
     Repositories |-> repoStates]

MarshalState(s) ==
    RepositoryState(MarshalString(s.ID), MarshalString(s.Name), MarshalString(s.Path),
                    MarshalString(s.Branch), MarshalString(s.CommitHash), s.Status)

UnmarshalState(d) ==
    RepositoryState(UnmarshalString(d.ID), UnmarshalString(d.Name),
                    UnmarshalString(d.Path), UnmarshalString(d.Branch),
                    UnmarshalString(d.CommitHash), d.Status)

\* json.MarshalIndent(snapshot, "", "  "): the file contents, field by field
Marshal(snapshot) ==
    Snapshot(MarshalString(snapshot.ID), snapshot.CreatedAt,
             MarshalString(snapshot.Description),
             [k \in DOMAIN snapshot.Repositories |->
                 MarshalState(snapshot.Repositories[k])])

\* json.Unmarshal(data, &snapshot)
Unmarshal(data) ==
    Snapshot(UnmarshalString(data.ID), data.CreatedAt, UnmarshalString(data.Description),
             [k \in DOMAIN data.Repositories |-> UnmarshalState(data.Repositories[k])])

\* Repository.GetCommitHash: git rev-parse HEAD
GetCommitHash(x) ==
    LET y == Invoke(x, "rev-parse") IN
    IF y.e.exists THEN [x |-> y, val |-> y.e.commit, err |-> Nil]
    ELSE [x |-> y, val |-> <<>>, err |-> "error getting commit hash"]

\* StateOf with the branch the registry configures in place of the current one
StateOfConfigured(r, commitHash) ==
    RepositoryState(r.Config.ID, r.Config.Name, r.Config.Path, r.Config.Branch,
                    commitHash, r.Metadata.Current)

\* "Create repository state"
StateOf(r, commitHash) ==
    RepositoryState(r.Config.ID, r.Config.Name, r.Config.Path, r.Metadata.Branch,
                    commitHash, r.Metadata.Current)

\* "Create repository states": the loop of CreateSnapshot from repository k on
RECURSIVE CreateStates(_, _, _, _, _)
CreateStates(repos, trees, k, md, acc) ==
    IF k > Len(repos) THEN [states |-> acc, md |-> md, err |-> Nil]
    ELSE
        LET u == UpdateStatus(Ctx(repos[k], trees[k], md)) IN
        IF u.err # Nil
        THEN [states |-> <<>>, md |-> u.x.md, err |-> "error updating repository status"]
        ELSE
            LET c == GetCommitHash(u.x) IN
            IF c.err # Nil
            THEN [states |-> <<>>, md |-> c.x.md, err |-> "error getting commit hash"]
            ELSE CreateStates(repos, trees, k + 1, c.x.md,
                              Append(acc, StateOf(c.x.r, c.val)))

\* the nil *Snapshot
NoSnapshot == Snapshot(<<>>, ZeroTime, <<>>, <<>>)

\* Manager.CreateSnapshot, at the time now, with the working trees given
CreateSnapshot(m, description, trees, now) ==
    LET g == GetAllRepositories(m)
        cs == CreateStates(g.repos, trees, 1, g.m.md, <<>>)
    IN  IF cs.err # Nil THEN [snapshot |-> NoSnapshot, md |-> cs.md, err |-> cs.err]
        ELSE [snapshot |-> Snapshot(generateSnapshotID(now, cs.states), now,
                                    description, cs.states),
              md |-> cs.md, err |-> Nil]

\* Manager.SaveSnapshot: os.WriteFile creates the file of the snapshot's id or
\* replaces its contents
SaveSnapshot(dir, snapshot) ==
    [k \in DOMAIN dir \cup {snapshot.ID} |->
        IF k = snapshot.ID THEN Marshal(snapshot) ELSE dir[k]]

\* Manager.LoadSnapshot
LoadSnapshot(dir, id) ==
    IF id \notin DOMAIN dir THEN [snapshot |-> NoSnapshot, err |-> "snapshot not found"]
    ELSE [snapshot |-> Unmarshal(dir[id]), err |-> Nil]

\* the working trees CreateSnapshot may meet
SnapshotConds ==
    { DefaultCond,
      [DefaultCond EXCEPT !.dirty = TRUE],
      [DefaultCond EXCEPT !.behind = 1],
      [DefaultCond EXCEPT !.head = <<"q", Quote>>, !.commit = SnapCommit],
      [DefaultCond EXCEPT !.head = <<"x", InvalidByte>>],
      [DefaultCond EXCEPT !.aheadOK = FALSE],
      [DefaultCond EXCEPT !.exists = FALSE, !.branchOK = FALSE, !.statusOK = FALSE,
                          !.fetchOK = FALSE] }

Descriptions == {<<"a">>, <<"b">>}

\* registries of no, one and two repositories of different ids
SnapshotManagers == { AddAll(EmptyManager, 1, S) : S \in {{}, {1}, {1, 3}} }

SnapshotFrame ==
    UNCHANGED <<initial, flags, repositories, results, pc, idx, semaphore, wg, task,
                cond, ops, reposToRemove, removed, ret, st, regOp, apply, fs>>

\* time passes
Tick ==
    /\ clock < MaxClock
    /\ clock' = clock + 1
    /\ UNCHANGED <<configFile, metadataDir, cfg, snapshotsDir, call>>
    /\ SnapshotFrame

\* "Create snapshot if requested" of `mctl save`: CreateSnapshot, then SaveSnapshot
\* of what it returned; the call takes one tick
SnapshotSave ==
    /\ clock < MaxClock
    /\ \E description \in Descriptions, trees \in [DOMAIN cfg -> SnapshotConds] :
         LET c == CreateSnapshot(TheManager, description, trees, clock) IN
         /\ metadataDir' = c.md
         /\ snapshotsDir' = IF c.err # Nil THEN snapshotsDir
                            ELSE SaveSnapshot(snapshotsDir, c.snapshot)
         /\ call' = [phase |-> "save", snapshot |-> c.snapshot, err |-> c.err,
                     trees |-> trees, before |-> snapshotsDir]
    /\ clock' = clock + 1
    /\ UNCHANGED <<configFile, cfg>>
    /\ SnapshotFrame

\* LoadSnapshot of the id of the snapshot just saved
SnapshotLoad ==
    /\ call.phase = "save"
    /\ call.err = Nil
    /\ LET l == LoadSnapshot(snapshotsDir, call.snapshot.ID) IN
       call' = [phase |-> "load", saved |-> call.snapshot, snapshot |-> l.snapshot,
                err |-> l.err]
    /\ UNCHANGED <<configFile, metadataDir, cfg, snapshotsDir, clock>>
    /\ SnapshotFrame

InitSnapshot ==
    /\ \E m \in SnapshotManagers :
         /\ cfg = m.cfg
         /\ configFile = m.file
         /\ metadataDir = m.md
    /\ initial = <<>>
    /\ flags = [parallel |-> 0, force |-> FALSE, dryRun |-> FALSE, fetchOnly |-> FALSE,
                autoRemove |-> FALSE]
    /\ repositories = <<>>
    /\ results = <<>>
    /\ pc = "idle"
    /\ idx = 1
    /\ semaphore = 0
    /\ wg = 0
    /\ task = <<>>
    /\ cond = <<>>
    /\ ops = <<>>
    /\ reposToRemove = <<>>
    /\ removed = <<>>
    /\ ret = "none"
    /\ st = NoCall
    /\ regOp = NoCall
    /\ apply = NoCall
    /\ snapshotsDir = NoSnapshots
    /\ clock = 0
    /\ call = NoCall
    /\ fs = NoFiles

NextSnapshot ==
    \/ Tick
    \/ SnapshotSave
    \/ SnapshotLoad

SpecSnapshot == InitSnapshot /\ [][NextSnapshot]_vars

----------------------------------------------------------------------------
(* pkg/git: RemoveEmptyParentDirectories *)

\* most directories below the root
MaxDirs == 3

\* A path is the sequence of its elements; the root "/" is the empty sequence.
Root == <<>>

Elements == {"a", "b"}

\* filepath.Dir of an absolute path; filepath.Dir("/") is "/"
Dir(p) == IF p = Root THEN Root ELSE SubSeq(p, 1, Len(p) - 1)

\* filepath.Abs: a relative path is joined to the current directory
Abs(path, currentDir) == IF path.rel THEN currentDir \o path.elems ELSE path.elems

\* len(entries) == 0 for the entries os.ReadDir returns
IsEmpty(f, dir) == dir \notin f.files /\ \A c \in f.dirs : Dir(c) # dir

\* Walks with the test against the current directory left out
WalksPastCurrentDir(dir, currentDir) == dir # Root

\* the condition of the loop "Walk up the directory tree until we reach the current
\* directory"; "." is no directory of an absolute path
Walks(dir, currentDir) == dir # currentDir /\ dir # Root

\* the sets of at most n directories in which every directory has its parent
RECURSIVE DirTrees(_)
DirTrees(n) ==
    IF n = 0 THEN {{}}
    ELSE LET T == DirTrees(n - 1) IN
         T \cup UNION { { t \cup {Append(p, c)} : p \in t \cup {Root}, c \in Elements } :
                        t \in T }

\* the paths of at most n elements
RECURSIVE Paths(_)
Paths(n) ==
    IF n = 0 THEN {Root}
    ELSE LET P == Paths(n - 1) IN P \cup { Append(p, c) : p \in P, c \in Elements }

InitRemoveParents ==
    /\ \E dirs \in DirTrees(MaxDirs) :
         \E files \in SUBSET dirs, currentDir \in dirs \cup {Root},
            elems \in Paths(MaxDirs), rel \in BOOLEAN :
           /\ fs = [dirs |-> dirs, files |-> files]
           /\ call = [phase |-> "call", path |-> [rel |-> rel, elems |-> elems],
                      currentDir |-> currentDir, dir |-> Root, err |-> Nil,
                      before |-> fs]
    /\ configFile = <<>>
    /\ metadataDir = NoMetadata
    /\ cfg = <<>>
    /\ initial = <<>>
    /\ flags = [parallel |-> 0, force |-> FALSE, dryRun |-> FALSE, fetchOnly |-> FALSE,
                autoRemove |-> FALSE]
    /\ repositories = <<>>
    /\ results = <<>>
    /\ pc = "idle"
    /\ idx = 1
    /\ semaphore = 0
    /\ wg = 0
    /\ task = <<>>
    /\ cond = <<>>
    /\ ops = <<>>
    /\ reposToRemove = <<>>
    /\ removed = <<>>
    /\ ret = "none"
    /\ st = NoCall
    /\ regOp = NoCall
    /\ apply = NoCall
    /\ snapshotsDir = NoSnapshots
    /\ clock = 0

RemoveParentsFrame == UNCHANGED <<syncVars, st, regOp, apply, snapshotsDir, clock>>

\* RemoveEmptyParentDirectories up to the loop: "Get the parent directory"
RemoveParentsStart ==
    /\ call.phase = "call"
    /\ call' = [call EXCEPT !.phase = "loop",
                            !.dir = Dir(Abs(call.path, call.currentDir))]
    /\ UNCHANGED fs
    /\ RemoveParentsFrame

\* one iteration of the loop on a directory that does not exist: "move up"
MoveUp ==
    /\ call.phase = "loop"
    /\ Walks(call.dir, call.currentDir)
    /\ call.dir \notin fs.dirs
    /\ call' = [call EXCEPT !.dir = Dir(@)]
    /\ UNCHANGED fs
    /\ RemoveParentsFrame

\* one iteration on an empty directory: os.Remove, which may fail, then
\* "Move up to the next parent directory"
RemoveEmpty ==
    /\ call.phase = "loop"
    /\ Walks(call.dir, call.currentDir)
    /\ call.dir \in fs.dirs
    /\ IsEmpty(fs, call.dir)
    /\ \E removeOK \in BOOLEAN :
         IF removeOK
         THEN /\ fs' = [fs EXCEPT !.dirs = @ \ {call.dir}]
              /\ call' = [call EXCEPT !.dir = Dir(@)]
         ELSE /\ fs' = fs
              /\ call' = [call EXCEPT !.phase = "returned",
                                      !.err = "failed to remove directory"]
    /\ RemoveParentsFrame

\* one iteration on a directory that is not empty: "stop here"
StopAtNonEmpty ==
    /\ call.phase = "loop"
    /\ Walks(call.dir, call.currentDir)
    /\ call.dir \in fs.dirs
    /\ ~IsEmpty(fs, call.dir)
    /\ call' = [call EXCEPT !.phase = "returned"]
    /\ UNCHANGED fs
    /\ RemoveParentsFrame

\* the loop ends at the current directory or at the root
WalkEnds ==
    /\ call.phase = "loop"
    /\ ~Walks(call.dir, call.currentDir)
    /\ call' = [call EXCEPT !.phase = "returned"]
    /\ UNCHANGED fs
    /\ RemoveParentsFrame

NextRemoveParents ==
    \/ RemoveParentsStart
    \/ MoveUp
    \/ RemoveEmpty
    \/ StopAtNonEmpty
    \/ WalkEnds

SpecRemoveParents == InitRemoveParents /\ [][NextRemoveParents]_vars

\* the call runs on: the process is scheduled and its system calls return
SpecRemoveParentsFair == SpecRemoveParents /\ WF_vars(NextRemoveParents)

----------------------------------------------------------------------------
(* Properties of runSync (checked under SpecSync) *)

Done(t) == task[t] = "done"

InFlight == {t \in Tasks : task[t] = "running"}

Invoked(t, op) == op \in Range(ops[t])

\* C1: during runSync the number of repository tasks started and not yet finished is
\* at most max(1, parallel); with parallel <= 0 at most one task runs at a time.
C1_InFlightBounded ==
    /\ Cardinality(InFlight) <= (IF flags.parallel >= 1 THEN flags.parallel ELSE 1)
    /\ flags.parallel <= 0 => Cardinality(InFlight) <= 1

\* one task is in flight, parallel is 0 and the loop waits to start the next task
C1_Witness ==
    /\ pc = "loop"
    /\ flags.parallel = 0
    /\ Cardinality(InFlight) = 1
    /\ idx <= Len(repositories)

\* C2: while any task has not finished, runSync has called RemoveRepository for no
\* repository and the registry, in memory and on disk, is the one that was loaded;
\* at every removal every task has finished and its outcome is in its slot.
C2_RemovalAfterJoin ==
    pc # "idle" =>
        /\ (\E t \in Tasks : ~Done(t)) =>
               removed = <<>> /\ cfg = initial /\ configFile = initial
        /\ (removed # <<>> \/ cfg # initial \/ configFile # initial) =>
               /\ pc \in {"remove", "done"}
               /\ \A t \in Tasks : Done(t) /\ results[t] # ZeroResult

\* a removal was made in a run of two tasks or more
C2_Witness ==
    /\ Len(repositories) >= 2
    /\ removed # <<>>
    /\ configFile # initial

SameOutcome(a, b) ==
    a.Success = b.Success /\ a.Error = b.Error /\ a.NotExist = b.NotExist

RECURSIVE WithoutNotExist(_, _)
WithoutNotExist(reg, k) ==
    IF k > Len(reg) THEN <<>>
    ELSE IF results[k].NotExist THEN WithoutNotExist(reg, k + 1)
    ELSE <<reg[k]>> \o WithoutNotExist(reg, k + 1)

\* C4: with auto-remove and without dry-run, the registry after runSync is the
\* registry before it minus exactly the entries whose task recorded notExist.
C4_RemovesExactlyNotExist ==
    (pc = "done" /\ flags.autoRemove /\ ~flags.dryRun) =>
        /\ configFile = WithoutNotExist(initial, 1)
        /\ cfg = WithoutNotExist(initial, 1)

C7_ForceOverridesLocalChanges ==
    (flags.force /\ ~flags.dryRun) =>
        \A t \in Tasks :
            (Done(t) /\ cond[t].exists /\ cond[t].dirty) =>
                /\ Invoked(t, "fetch")
                /\ (~flags.fetchOnly /\ cond[t].fetchOK) => Invoked(t, "pull")
                /\ (cond[t].fetchOK /\ (flags.fetchOnly \/ cond[t].pullOK)) =>
                       results[t].Success

\* C8: with dry-run, no task invokes clone, fetch or pull, and the registry is
\* unchanged at the end of the run, also with auto-remove.
C8_DryRunExecutesNothing ==
    flags.dryRun =>
        /\ \A t \in Tasks :
               ~Invoked(t, "clone") /\ ~Invoked(t, "fetch") /\ ~Invoked(t, "pull")
        /\ pc = "done" => configFile = initial /\ cfg = initial

----------------------------------------------------------------------------
(* Properties of UpdateStatus (checked under SpecStatus) *)

Returned == st.phase = "returned"

C10_ComparisonFailureIsClean ==
    (/\ Returned
     /\ st.e.exists /\ st.e.branchOK /\ st.e.statusOK /\ ~st.e.dirty
     /\ (~st.e.fetchOK \/ ~st.e.aheadOK \/ ~st.e.behindOK)) =>
        st.err = Nil /\ st.r.Metadata.Current = StatusClean

\* the status in the record stored for id, "none" without a record
StoredStatus(md, id) == IF id \in DOMAIN md THEN md[id].Current ELSE "none"

\* C11: the status UpdateStatus yields, in memory and in the stored metadata record,
\* is the same whatever status was stored before the call, and a second call on
\* unchanged conditions leaves the status and the metadata the first call left.
C11_StatelessIdempotent ==
    /\ (Returned /\ st.err = Nil) =>
           \A s \in Statuses :
               LET other == Loaded(s)
                   md == IF st.mdBefore = NoMetadata THEN NoMetadata ELSE StoreOf(other)
                   u == UpdateStatus(Ctx(other, st.e, md))
                   id == st.r.Config.ID
               IN  /\ u.err = Nil
                   /\ u.x.r.Metadata.Current = st.r.Metadata.Current
                   /\ StoredStatus(u.x.md, id) = StoredStatus(st.md, id)
    /\ st.phase = "again" =>
           /\ st.err = st.first.err
           /\ st.r = st.first.r
           /\ st.md = st.first.md

----------------------------------------------------------------------------
(* Properties of the repository manager (checked under SpecRegistry) *)

Added == regOp.phase = "add" /\ regOp.err = Nil

\* the entry a successful AddRepository appended
Stored == cfg[Len(cfg)]

Suffixed(name, n) == name \o <<"-">> \o Itoa(n)

\* C12: from a registry with unique paths and names, after any sequence of
\* AddRepository and RemoveRepository calls no two entries of the registry, in
\* memory or persisted, share a path and no two share a name.
C12_UniquePathsAndNames ==
    /\ \A j, k \in DOMAIN cfg :
           j # k => cfg[j].Path # cfg[k].Path /\ cfg[j].Name # cfg[k].Name
    /\ \A j, k \in DOMAIN configFile :
           j # k => /\ configFile[j].Path # configFile[k].Path
                    /\ configFile[j].Name # configFile[k].Name

\* a third entry was added under a name that was already registered
C12_Witness ==
    /\ Added
    /\ NameExists(regOp.before.cfg, regOp.name)
    /\ Len(cfg) = 3

\* C13: AddRepository with a name already registered stores the name with the
\* smallest suffix -1, -2, ... that is free in the registry, and the stored id is
\* GenerateID of that final name; the entry that holds the requested name and the
\* new entry have different ids.
C13_SmallestFreeSuffix ==
    (Added /\ NameExists(regOp.before.cfg, regOp.name)) =>
        /\ \E n \in 1..Len(regOp.before.cfg) :
               /\ Stored.Name = Suffixed(regOp.name, n)
               /\ ~NameExists(regOp.before.cfg, Suffixed(regOp.name, n))
               /\ \A i \in 1..(n - 1) : NameExists(regOp.before.cfg, Suffixed(regOp.name, i))
        /\ Stored.ID = GenerateID(Stored.Name, RegURL, RegBranch, regOp.path)
        /\ Stored.ID # GenerateID(regOp.name, RegURL, RegBranch, regOp.path)
        /\ Stored.Path = regOp.path
        /\ \A k \in DOMAIN regOp.before.cfg :
               regOp.before.cfg[k].Name = regOp.name => cfg[k].ID # Stored.ID

\* svc was requested while svc and svc-2 were registered and svc-1 was free
C13_Witness ==
    /\ Added
    /\ regOp.name = svc
    /\ NameExists(regOp.before.cfg, svc)
    /\ NameExists(regOp.before.cfg, Suffixed(svc, 2))
    /\ Stored.Name = Suffixed(svc, 1)

Unchanged == cfg = regOp.before.cfg /\ configFile = regOp.before.file

Matches(identifier, c) ==
    \/ c.ID = identifier
    \/ c.Name = identifier
    \/ c.Path = identifier
    \/ JoinBaseDir(c.Path) = identifier

\* C14: AddRepository with a path already registered, AddRepository whose clone
\* fails, and RemoveRepository with an identifier that matches no entry each return
\* an error and leave the registry, in memory and persisted, as it was.
C14_FailureLeavesRegistry ==
    /\ (/\ regOp.phase = "add"
        /\ \E k \in DOMAIN regOp.before.cfg : regOp.before.cfg[k].Path = regOp.path) =>
           regOp.err # Nil /\ Unchanged
    /\ (regOp.phase = "add" /\ ~regOp.noClone /\ ~regOp.cloneOK) =>
           regOp.err # Nil /\ Unchanged
    /\ (/\ regOp.phase = "remove"
        /\ \A k \in DOMAIN regOp.before.cfg :
               ~Matches(regOp.identifier, regOp.before.cfg[k])) =>
           regOp.err # Nil /\ Unchanged

\* the clone failed for a free path on a registry that holds entries
C14_Witness ==
    /\ regOp.phase = "add"
    /\ ~regOp.noClone /\ ~regOp.cloneOK
    /\ ~PathTaken(regOp.before.cfg, regOp.path)
    /\ regOp.err = "git clone failed"
    /\ Len(cfg) = 2

\* C15: at every point of the save AddRepository and RemoveRepository make, also
\* when a step of SaveConfig fails, the registry file holds the complete old list or
\* the complete new list, never an empty or partial one.
C15_SaveIsAtomic ==
    regOp.phase = "save" => configFile \in {regOp.old, regOp.new}

\* the entry an identifier stands for: the first entry with that id, else the first
\* with that name, else the first with that path (relative or joined), 0 for none
Resolved(repos, identifier) ==
    IF \E k \in DOMAIN repos : repos[k].ID = identifier
    THEN CHOOSE k \in DOMAIN repos :
             /\ repos[k].ID = identifier
             /\ \A j \in 1..(k - 1) : repos[j].ID # identifier
    ELSE IF \E k \in DOMAIN repos : repos[k].Name = identifier
    THEN CHOOSE k \in DOMAIN repos :
             /\ repos[k].Name = identifier
             /\ \A j \in 1..(k - 1) : repos[j].Name # identifier
    ELSE IF \E k \in DOMAIN repos : identifier \in {repos[k].Path, JoinBaseDir(repos[k].Path)}
    THEN CHOOSE k \in DOMAIN repos :
             /\ identifier \in {repos[k].Path, JoinBaseDir(repos[k].Path)}
             /\ \A j \in 1..(k - 1) :
                    identifier \notin {repos[j].Path, JoinBaseDir(repos[j].Path)}
    ELSE 0

\* C16: GetRepository and RemoveRepository resolve the identifier against id, then
\* name, then path, taking the first match; RemoveRepository deletes exactly that
\* entry and its metadata record, every other entry staying, unchanged and in order.
C16_ResolvesAndRemovesExactly ==
    LET before == regOp.before.cfg
        k == Resolved(before, regOp.identifier)
    IN  /\ (regOp.phase = "get" /\ regOp.err = Nil) =>
               k # 0 /\ regOp.repo.Config = before[k]
        /\ (regOp.phase = "remove" /\ regOp.err = Nil) =>
               /\ k # 0
               /\ cfg = RemoveAt(before, k)
               /\ configFile = RemoveAt(before, k)
               /\ before[k].ID \notin DOMAIN metadataDir

\* C17: GetRepository returns the repository of every identifier that matches an
\* entry, and GetAllRepositories one repository per entry, also when the metadata
\* record is missing (the metadata is then freshly initialised); RemoveRepository of
\* such an identifier is not blocked by the missing record.
C17_MetadataLossTolerated ==
    LET before == regOp.before
        k == Resolved(before.cfg, regOp.identifier)
    IN  /\ (regOp.phase = "get" /\ k # 0) =>
               /\ regOp.err = Nil
               /\ regOp.repo.Config = before.cfg[k]
               /\ before.cfg[k].ID \notin DOMAIN before.md =>
                      regOp.repo.Metadata = New(before.cfg[k]).Metadata
        /\ regOp.phase = "getall" =>
               /\ regOp.err = Nil
               /\ Len(regOp.repos) = Len(before.cfg)
               /\ \A j \in DOMAIN before.cfg :
                      /\ regOp.repos[j].Config = before.cfg[j]
                      /\ before.cfg[j].ID \notin DOMAIN before.md =>
                             regOp.repos[j].Metadata = New(before.cfg[j]).Metadata
        /\ (regOp.phase = "remove" /\ k # 0) => regOp.err = Nil

----------------------------------------------------------------------------
(* Properties of ApplySnapshot (checked under SpecApply) *)

Targets == DOMAIN apply.targets

\* git subcommand op was invoked on the working tree of target k
Ran(k, op) == op \in Range(apply.ops[k])

Mutated(k) == Ran(k, "checkout") \/ Ran(k, "reset")

\* target k was found with local changes
FoundDirty(k) == apply.met[k] # Unseen /\ apply.met[k].statusOK /\ apply.met[k].dirty

\* C18: without force, when a targeted repository has local changes, whatever its
\* position, no checkout and no reset has been performed on any targeted
\* repository, and ApplySnapshot returns an error.
C18_PreflightGate ==
    (/\ apply.phase # "call"
     /\ ~apply.options.Force
     /\ \E k \in Targets : FoundDirty(k)) =>
        /\ \A j \in Targets : ~Mutated(j)
        /\ apply.phase = "returned"
        /\ apply.err # Nil

\* the second of two targets was dirty, the first clean
C18_Witness ==
    /\ apply.phase = "returned"
    /\ ~apply.options.Force
    /\ Len(apply.targets) = 2
    /\ apply.met[1] # Unseen /\ ~apply.met[1].dirty
    /\ FoundDirty(2)
    /\ apply.err = "repository has uncommitted changes"

\* C19: with dryRun, ApplySnapshot performs no checkout, no reset and no status
\* refresh on any repository: every working tree, every metadata record and the
\* registry are as they were before the call.
C19_DryRunTouchesNothing ==
    (apply.phase # "call" /\ apply.options.DryRun) =>
        /\ \A k \in Targets :
               /\ Range(apply.ops[k]) \subseteq {"status"}
               /\ apply.trees[k] = apply.met[k]
        /\ metadataDir = apply.before.md
        /\ cfg = apply.before.cfg
        /\ configFile = apply.before.file

\* a dry run over two targets went through both loops and returned nil
C19_Witness ==
    /\ apply.phase = "returned"
    /\ apply.options.DryRun
    /\ ~apply.options.Force
    /\ apply.err = Nil
    /\ Len(apply.targets) = 2
    /\ \A k \in Targets : apply.state[k] = "skipped" /\ Ran(k, "status")

\* the checkouts and resets among the git subcommands invoked on target k
RECURSIVE Mutations(_)
Mutations(s) ==
    IF s = <<>> THEN <<>>
    ELSE (IF Head(s) \in {"checkout", "reset"} THEN <<Head(s)>> ELSE <<>>)
         \o Mutations(Tail(s))

\* the git subcommands invoked on target k after its reset
AfterReset(s) ==
    LET at == CHOOSE n \in DOMAIN s : s[n] = "reset" IN SubSeq(s, at + 1, Len(s))

\* C20: without dryRun, the targets are processed one after the other in snapshot
\* order, each as checkout, then hard reset, then status refresh; at the first
\* failure ApplySnapshot returns the error, no later target has been touched, and
\* the targets processed before stay at the recorded branch and commit.
C20_SequentialAbort ==
    (apply.phase # "call" /\ ~apply.options.DryRun) =>
        /\ apply.targets = RepoStatesToApply(apply.snapshot, apply.options)
        /\ \A k \in Targets :
               /\ Mutated(k) => \A j \in 1..(k - 1) : apply.state[j] = "applied"
               /\ apply.state[k] = "applied" =>
                      /\ Mutations(apply.ops[k]) = <<"checkout", "reset">>
                      /\ "status" \in Range(AfterReset(apply.ops[k]))
                      /\ apply.trees[k].head = apply.targets[k].Branch
                      /\ apply.trees[k].commit = apply.targets[k].CommitHash
               /\ apply.state[k] = "failed" =>
                      /\ apply.phase = "returned"
                      /\ apply.err # Nil
                      /\ \A j \in Targets :
                             j > k => ~Mutated(j) /\ apply.trees[j] = apply.met[j]
        /\ (apply.phase = "returned" /\ apply.err = Nil) =>
               \A k \in Targets : apply.state[k] = "applied"

\* the first target was applied and the reset of the second failed
C20_Witness ==
    /\ apply.phase = "returned"
    /\ Len(apply.targets) = 2
    /\ apply.state[1] = "applied"
    /\ apply.state[2] = "failed"
    /\ apply.err = "error resetting to commit"
    /\ apply.trees[1].commit = SnapCommit

\* C28: after any sequence of AddRepository and RemoveRepository calls no two
\* entries of the registry have the same id, also when their names differ only in
\* letter case or their fields only in surrounding whitespace; so a removal by id
\* removes the entry that was resolved and its metadata record only.
C28_UniqueIDs ==
    /\ \A j, k \in DOMAIN cfg : j # k => cfg[j].ID # cfg[k].ID
    /\ (regOp.phase = "remove" /\ regOp.err = Nil) =>
           LET before == regOp.before.cfg
               k == Resolved(before, regOp.identifier)
           IN  k # 0 /\ cfg = RemoveAt(before, k)

\* C27: after a repository is synced successfully in a non-dry-run runSync, in
\* fetch-only as well as in fetch-and-merge mode, the metadata record stored under its
\* id carries the status its working tree has after the run and a lastSync time set
\* by this run.
C27_PostSyncMetadata ==
    \A t \in Tasks :
        (Done(t) /\ results[t].Success /\ ~flags.dryRun /\ cond[t].exists
           /\ pc = "loop") =>
            LET id == repositories[t].Config.ID
                behind == IF flags.fetchOnly THEN cond[t].behind ELSE 0
            IN  /\ id \in DOMAIN metadataDir
                /\ metadataDir[id].LastSync = Now
                /\ metadataDir[id].Current =
                       IF cond[t].dirty THEN StatusModified
                       ELSE RemoteStatus(cond[t].ahead, behind)

\* C30: runSync always reaches its join and returns, given that every git subprocess
\* terminates: every task is eventually started, writes an outcome to its slot and
\* releases its semaphore slot, whatever the parallel limit and the number of
\* repositories; no schedule deadlocks.
C30_Terminates ==
    (pc = "loop") ~> (/\ pc = "done"
                      /\ \A t \in Tasks : Done(t) /\ results[t] # ZeroResult
                      /\ semaphore = 0
                      /\ wg = 0)

\* runSync has returned after more tasks than the semaphore has slots
C30_Witness ==
    /\ pc = "done"
    /\ Len(repositories) > Capacity(flags.parallel)
    /\ \A t \in Tasks : Done(t) /\ results[t] # ZeroResult

\* C29: ApplySnapshot checks out and resets only the repositories the snapshot was
\* created from: a recorded RepositoryState is applied to the registry entry whose id
\* is the recorded id, never to an entry with a different id (one registered under
\* the recorded name after the original was removed, say).
C29_AppliesByID ==
    apply.phase # "none" =>
        \A k \in Targets :
            Mutated(k) =>
                cfg[Resolved(cfg, apply.targets[k].Name)].ID = apply.targets[k].ID

\* the inputs of GenerateID as it normalises them: the name lowercased and trimmed,
\* the url, the branch and the path trimmed
Normalized(i) ==
    <<ToLower(TrimSpace(i.name)), TrimSpace(i.url), TrimSpace(i.branch), TrimSpace(i.path)>>

\* C25: GenerateID is a function of its normalized inputs: two calls whose names are
\* equal after trimming and lowercasing and whose urls, branches and paths are equal
\* after trimming return the same id; so do ("Svc", " u ", "", "p") and
\* ("svc", "u", "", "p").
C25_FunctionOfNormalizedInputs ==
    call.phase = "generated" =>
        /\ Normalized(call.a) = Normalized(call.b) => call.ida = call.idb
        /\ (/\ call.a = [name |-> Svc, url |-> <<" ", "u", " ">>, branch |-> <<>>,
                         path |-> <<"p">>]
            /\ call.b = [name |-> svc, url |-> <<"u">>, branch |-> <<>>, path |-> <<"p">>])
               => call.ida = call.idb

\* GenerateID has been called on inputs that differ in case and in surrounding space
C25_Witness ==
    /\ call.phase = "generated"
    /\ call.a.name # call.b.name
    /\ call.a.url # call.b.url
    /\ call.a.path # call.b.path
    /\ Normalized(call.a) = Normalized(call.b)
    /\ call.ida = call.idb

\* the (id, branch, commitHash) triples of a fleet state, in order
Triples(repoStates) ==
    [k \in DOMAIN repoStates |->
        <<repoStates[k].ID, repoStates[k].Branch, repoStates[k].CommitHash>>]

\* C22: two snapshots created in the same wall-clock second over fleet states that
\* differ in a repository's (id, branch, commitHash) triple or in the list of
\* repositories get different snapshot ids.
C22_DistinctIDs ==
    (/\ call.phase = "generated"
     /\ call.ta \div TicksPerSecond = call.tb \div TicksPerSecond
     /\ Triples(call.a) # Triples(call.b)) => call.ida # call.idb

\* SaveSnapshot has just written a snapshot
Saved == call.phase = "save" /\ call.err = Nil

\* C21: a saved snapshot record is immutable: once SaveSnapshot has written the record
\* of an id, a later CreateSnapshot and SaveSnapshot leaves the record stored under
\* that id as it was.
C21_SavedRecordImmutable ==
    Saved => \A id \in DOMAIN call.before : snapshotsDir[id] = call.before[id]

\* the status a fresh computation gives for a working tree
FreshStatus(e) ==
    IF e.dirty THEN StatusModified
    ELSE IF e.ahead > 0 /\ e.behind > 0 THEN StatusDiverged
    ELSE IF e.ahead > 0 THEN StatusAhead
    ELSE IF e.behind > 0 THEN StatusBehind
    ELSE StatusClean

\* C23: a snapshot returned by CreateSnapshot holds exactly one RepositoryState per
\* registry entry, in registry order, each with the entry's id, name and path and
\* with the branch, the commit hash and the status its working tree has during the
\* call.
C23_OneStatePerEntry ==
    Saved =>
        LET s == call.snapshot.Repositories IN
        /\ Len(s) = Len(cfg)
        /\ \A k \in DOMAIN cfg :
             /\ s[k].ID = cfg[k].ID
             /\ s[k].Name = cfg[k].Name
             /\ s[k].Path = cfg[k].Path
             /\ s[k].Branch = call.trees[k].head
             /\ s[k].CommitHash = call.trees[k].commit
             /\ s[k].Status = FreshStatus(call.trees[k])

\* a snapshot of two repositories on different branches, at different commits and
\* in different states
C23_Witness ==
    /\ Saved
    /\ Len(call.snapshot.Repositories) = 2
    /\ call.snapshot.Repositories[1].Branch # call.snapshot.Repositories[2].Branch
    /\ call.snapshot.Repositories[1].CommitHash # call.snapshot.Repositories[2].CommitHash
    /\ call.snapshot.Repositories[1].Status = StatusBehind
    /\ call.snapshot.Repositories[2].Status = StatusClean

\* C24: LoadSnapshot(s.id) after SaveSnapshot(s) returns a snapshot whose list of
\* repository states is the one saved: same length, same order, same id, branch,
\* commit hash and status in every entry.
C24_RoundTrip ==
    (call.phase = "load" /\ call.err = Nil) =>
        LET s == call.saved.Repositories
            l == call.snapshot.Repositories
        IN  /\ Len(l) = Len(s)
            /\ \A k \in DOMAIN s :
                 /\ l[k].ID = s[k].ID
                 /\ l[k].Branch = s[k].Branch
                 /\ l[k].CommitHash = s[k].CommitHash
                 /\ l[k].Status = s[k].Status

\* the ancestors of an absolute path, the root excluded
Ancestors(abs) == { SubSeq(abs, 1, n) : n \in 1..(Len(abs) - 1) }

\* whether the walk from abs empties the directory d of the file system f: d is an
\* ancestor that exists, is not the current directory, holds no file, and holds no
\* directory but an ancestor that the walk empties
RECURSIVE Emptied(_, _, _, _)
Emptied(f, currentDir, abs, d) ==
    /\ d \in Ancestors(abs) \cap f.dirs
    /\ d # currentDir
    /\ d \notin f.files
    /\ \A c \in f.dirs : Dir(c) = d => Emptied(f, currentDir, abs, c)

\* the directories RemoveEmptyParentDirectories has removed so far
Gone == call.before.dirs \ fs.dirs

====
